---- MODULE Spec2Model ----
(***************************************************************************)
(* httpdf: HTML template + JSON values -> PDF.                             *)
(*                                                                         *)
(* Spec / FairSpec : one Generate call (validation, the temporary HTTP     *)
(*                   server with its two goroutines, the root handler and  *)
(*                   the PDF renderer driving the browser).                *)
(* SpecFuncs       : the template function registry (sprig, env) and       *)
(*                   Template.Render in two process environments.          *)
(* SpecIso         : two concurrent Template.Render calls, each building   *)
(*                   its function map.                                     *)
(* SpecServer      : the HTTP service's render, assets and preview         *)
(*                   handlers over the loader and the template cache.      *)
(* SpecCalls       : single calls of subDirFS.Sub, of the router serve()   *)
(*                   builds, of the asset and locale functions, of         *)
(*                   fsLoader.Load and of Client.Render.                   *)
(* SpecChunk       : one call of chunk, pass by pass of its loop.          *)
(* SpecTr          : calls of tr and trLocale on the registries of two     *)
(*                   renders.                                              *)
(* SpecCl          : cachingFSLoader.Load and renderer.Render reading the  *)
(*                   cached template's content.                            *)
(***************************************************************************)
EXTENDS Integers, Sequences, FiniteSets, TLC

\* ------------------------------------------------------------------ bounds
MaxTmplLen == 2      \* nodes in a template source
PdfChunks == 2       \* chunks io.Copy moves from the PDF stream to the writer
MaxEnvList == 2      \* entries in a template's exposedEnvVars list
NumHandlers == 2     \* HTTP requests the service handles, possibly at once
MaxVersion == 2      \* versions of a template directory on disk
MaxDirParts == 3     \* slash-separated parts of the argument of subDirFS.Sub
MaxReqParts == 2     \* slash-separated parts of a request path
MaxSegs == 2         \* segments passed to the asset function
MaxArrLen == 3       \* elements of the array given to chunk
MaxChunkSize == 4    \* largest n given to chunk
MaxIter == 5         \* chunks held before a loop that does not end is cut off
MaxTrCalls == 3      \* calls of tr and trLocale in the renders followed
MaxBodyLen == 2      \* chunks of an HTTP response body
MaxSrcLen == 2       \* reads io.ReadAll needs for a template.html
MaxRenders == 3      \* renderer.Render calls followed

VARIABLES
    \* --- inputs of Generate(ctx, t, locale, v, w)
    tmplSrc,        \* t.String(): the template source, a sequence of nodes
    schema,         \* t.Schema
    values,         \* v
    ctxCancelled,   \* ctx.Done() is closed
    \* --- Generate
    genPc,          \* position of Generate
    genErr,         \* the error Generate returned
    cancelCalled,   \* the deferred cancel() of srvCtx has run
    \* --- temporaryServer
    listener,       \* "none" | "open" | "closed"
    shutdownPc,     \* goroutine 1: "none" | "waiting" | "done"
    servePc,        \* goroutine 2: "none" | "spawned" | "serving" | "exited" | "panicked"
    aborted,        \* the process died of an unrecovered panic
    \* --- root handler of serve()
    httpReq,        \* the browser's GET /: "none" | "queued" | "answered" | "reset"
    respStatus,     \* status line of the answer (0: none yet)
    respBody,       \* body of the answer
    tmplErr,        \* error t.Render returned to the handler
    \* --- pdfRenderer.Render
    renderPc,       \* "idle" | "launch" | "navigate" | "stable" | "pdf" | "copy" | "done" | "failed"
    renderCtx,      \* the context Render was given
    renderErr,      \* the error Render returned
    outWritten,     \* chunks written to the caller's writer w
    \* --- template functions (SpecFuncs)
    fnPc,           \* "idle" | "ready" | "rendered" | "called"
    exposedEnvVars, \* t.Config.ExposedEnvVars
    envA, envB,     \* two process environments
    fnOutA, fnOutB, \* results of Template.Render in envA and in envB
    fnCall          \* the last direct call of the env template function

genVars == <<tmplSrc, schema, values, ctxCancelled, genPc, genErr, cancelCalled,
             listener, shutdownPc, servePc, aborted, httpReq, respStatus,
             respBody, tmplErr, renderPc, renderCtx, renderErr, outWritten>>
fnVars == <<fnPc, exposedEnvVars, envA, envB, fnOutA, fnOutB, fnCall>>
VARIABLES
    \* --- chunk(args ...any)
    chPc,           \* "idle" | "ready" | "loop" | "done" | "panicked"
    chNargs,        \* len(args)
    chArr,          \* args[0].([]any)
    chN,            \* args[1].(int)
    chI,            \* the loop variable i
    chChunks,       \* chunks appended so far
    chRet,          \* the value chunk returned
    \* --- direct calls of asset, locale, subDirFS.Sub and the serve() router
    callPc,         \* "idle" | "ready" | "called"
    call,           \* [fn, arg, res] of the call made
    \* --- two concurrent Template.Render calls
    isoPc,          \* per call: "start" | "i18n" | "env" | "exec" | "done"
    isoIn,          \* per call: the template and the arguments of Render
    isoFuncs,       \* the function maps, by the place they are stored in
    isoSeen,        \* per call: what the executed template got from its functions
    \* --- the HTTP service: handlers, loader and template cache
    disk,           \* per template name: version on disk (0: no such template)
    cache,          \* s.cache
    hPc,            \* per handler: "idle" | "lookup" | "load" | "store" | "done" | "failed"
    hReq,           \* per handler: [kind, name] of its request
    hTmpl,          \* per handler: the *Template it holds
    nextId,         \* Template objects allocated so far
    stored,         \* per name: executions of s.cache[name] = t
    hCacheOps,      \* per handler: accesses of s.cache
    hLoads          \* per handler: calls of s.loader.Load

chVars == <<chPc, chNargs, chArr, chN, chI, chChunks, chRet>>
callVars == <<callPc, call>>
isoVars == <<isoPc, isoIn, isoFuncs, isoSeen>>
srvVars == <<disk, cache, hPc, hReq, hTmpl, nextId, stored, hCacheOps, hLoads>>
xVars == <<chVars, callVars, isoVars, srvVars>>

VARIABLES
    \* --- tr and trLocale of the registries of two renders
    trBundle,       \* per registry: the template's t.I18n
    trLocalizer,    \* per registry: the localizer translateFunc closes over
    localizers,     \* per registry: the map translateLocaleFunc closes over
    trCreated,      \* per registry and locale: bundle.NewLocalizer calls of trLocale
    nextLocalizer,  \* localizers allocated so far
    trCalls,        \* calls of tr and trLocale made so far
    trLast,         \* the last call and its result
    \* --- cachingFSLoader and renderer.Render
    clDisk,         \* template.html on disk
    clCache,        \* l.cache[name]: the cached template and its Content buffer
    clHeld,         \* per caller: holds the template Load returned, or reads it
    clRenders,      \* renderer.Render calls made
    clLast          \* per caller: what its Render has read from tmpl.Content

trVars == <<trBundle, trLocalizer, localizers, trCreated, nextLocalizer, trCalls, trLast>>
clVars == <<clDisk, clCache, clHeld, clRenders, clLast>>
yVars == <<trVars, clVars>>
vars == <<genVars, fnVars, xVars, yVars>>

Range(s) == {s[i] : i \in 1..Len(s)}

\* Sequences over S of length 0..n
SeqsUpTo(S, n) == UNION {[1..k -> S] : k \in 0..n}

\* ------------------------------------------------- process environment
EnvNames == {"A", "B"}
EnvValues == {"", "x", "y"}

\* A process environment: the set variables and their values.
Environments == UNION {[d -> EnvValues] : d \in SUBSET EnvNames}

\* os.Getenv: the value, or "" when the variable is not set
Getenv(env, key) == IF key \in DOMAIN env THEN env[key] ELSE ""

\* os.ExpandEnv("$key"): replaces the reference by the variable's value
ExpandEnv(env, key) == Getenv(env, key)


\* ------------------------------------------------- template functions
\* envFunc(exposedEnvVars): the lookup map built from the list; a name that
\* is not a key reads as false.
exposedMap(list) == [k \in Range(list) |-> TRUE]

\* Mutant of envFunc: the whitelist test is missing (sprig's own env).
envFunc_NoWhitelist(list, env, key) == Getenv(env, key)

\* The closure envFunc returns, applied to key in process environment env.
envFunc(list, env, key) ==
    LET exposed == exposedMap(list)
    IN  IF ~(key \in DOMAIN exposed /\ exposed[key])
        THEN ""
        ELSE Getenv(env, key)

\* sprig.FuncMap(): the general helpers; the map is the non-hermetic one, so
\* it holds env and expandenv bound to os.Getenv and os.ExpandEnv.
SprigFuncMap ==
    [env |-> "os.Getenv", expandenv |-> "os.ExpandEnv",
     fail |-> "sprig.fail", upper |-> "strings.ToUpper"]

\* templateFuncs(assetsPrefix): sprig's map plus chunk and asset.
templateFuncs == [chunk |-> "chunk", asset |-> "assetFunc"] @@ SprigFuncMap

\* i18nTemplateFuncs(funcs, bundle, locale): sets locale, tr and trLocale.
i18nTemplateFuncs(funcs) ==
    [locale |-> "localeFunc", tr |-> "translateFunc",
     trLocale |-> "translateLocaleFunc"] @@ funcs

\* envTemplateFuncs(funcs, exposedEnvVars): funcs["env"] = envFunc(...)
envTemplateFuncs(funcs) == [env |-> "envFunc"] @@ funcs

\* The registry Template.Render hands to the parser.
renderFuncs == envTemplateFuncs(i18nTemplateFuncs(templateFuncs))

\* A template source is a sequence of nodes: literal text, or {{fn arg}}.
TextNode == [fn |-> "#text", arg |-> "Hello"]
FailNode == [fn |-> "fail", arg |-> "boom"]          \* {{fail "boom"}}
UndefNode == [fn |-> "nosuchfunc", arg |-> ""]       \* {{nosuchfunc}}
EnvNodes == {[fn |-> f, arg |-> k] : f \in {"env", "expandenv"}, k \in EnvNames}

\* text/template Parse: a call of a function the map lacks is a parse error.
Parse(funcs, src) ==
    \A i \in 1..Len(src) : src[i].fn = "#text" \/ src[i].fn \in DOMAIN funcs

\* One {{fn arg}} call: [ok, val].
CallFunc(funcs, node, list, env) ==
    LET impl == funcs[node.fn]
    IN  CASE impl = "envFunc"      -> [ok |-> TRUE, val |-> envFunc(list, env, node.arg)]
          [] impl = "os.Getenv"    -> [ok |-> TRUE, val |-> Getenv(env, node.arg)]
          [] impl = "os.ExpandEnv" -> [ok |-> TRUE, val |-> ExpandEnv(env, node.arg)]
          [] impl = "sprig.fail"   -> [ok |-> FALSE, val |-> ""]
          [] OTHER                 -> [ok |-> TRUE, val |-> node.arg]

\* text/template Execute: nodes are evaluated in order and written to out as
\* they are produced; the first failing call stops it, what was written stays.
RECURSIVE Execute(_, _, _, _, _, _)
Execute(funcs, src, list, env, i, out) ==
    IF i > Len(src) THEN [err |-> "none", out |-> out]
    ELSE IF src[i].fn = "#text"
         THEN Execute(funcs, src, list, env, i + 1, Append(out, src[i].arg))
         ELSE LET r == CallFunc(funcs, src[i], list, env)
              IN  IF r.ok
                  THEN Execute(funcs, src, list, env, i + 1, Append(out, r.val))
                  ELSE [err |-> "execute template", out |-> out]

\* Template.Render(values, assetsPrefix, locale, out)
TemplateRender(src, list, env) ==
    LET funcs == renderFuncs
    IN  IF ~Parse(funcs, src)
        THEN [err |-> "parse template", out |-> <<>>]
        ELSE Execute(funcs, src, list, env, 1, <<>>)

\* ------------------------------------------------- schema validation
Fields == {"name", "age"}
FieldType == [name |-> "string", age |-> "number"]
JSONTypes == {"string", "number"}

\* Schemas: the properties above, with any set of them required.
Schemas == [required : SUBSET Fields]
\* Value maps: a JSON object giving some of the fields a typed value.
ValueMaps == UNION {[d -> JSONTypes] : d \in SUBSET Fields}

\* t.Schema.Validate(v).Errors: every violation, keyed by location.
SchemaErrors(sch, v) ==
    {[path |-> f, reason |-> "required"] : f \in sch.required \ DOMAIN v}
    \cup {[path |-> f, reason |-> "type"] : f \in {g \in DOMAIN v : v[g] # FieldType[g]}}

\* t.Schema.Validate(v).Valid
SchemaValid(sch, v) == SchemaErrors(sch, v) = {}


\* ------------------------------------------------- Generate: one call
GenNodes == {TextNode, FailNode, UndefNode}
NoErr == [kind |-> "nil", detail |-> {}]

\* The parts of the state a specification does not exercise stay as below.
ChIdle ==
    /\ chPc = "idle"
    /\ chNargs = 0
    /\ chArr = <<>>
    /\ chN = 0
    /\ chI = 0
    /\ chChunks = <<>>
    /\ chRet = [kind |-> "none", val |-> <<>>]

CallIdle ==
    /\ callPc = "idle"
    /\ call = [fn |-> "none"]

IsoIdle ==
    /\ isoPc = <<>>
    /\ isoIn = <<>>
    /\ isoFuncs = <<>>
    /\ isoSeen = <<>>

SrvIdle ==
    /\ disk = <<>>
    /\ cache = <<>>
    /\ hPc = <<>>
    /\ hReq = <<>>
    /\ hTmpl = <<>>
    /\ nextId = 0
    /\ stored = <<>>
    /\ hCacheOps = <<>>
    /\ hLoads = <<>>

XIdle == ChIdle /\ CallIdle /\ IsoIdle /\ SrvIdle

TrIdle ==
    /\ trBundle = <<>>
    /\ trLocalizer = <<>>
    /\ localizers = <<>>
    /\ trCreated = <<>>
    /\ nextLocalizer = 0
    /\ trCalls = 0
    /\ trLast = [fn |-> "none"]

ClIdle ==
    /\ clDisk = <<>>
    /\ clCache = [cached |-> FALSE, src |-> <<>>, buf |-> <<>>]
    /\ clHeld = FALSE
    /\ clRenders = 0
    /\ clLast = <<>>

YIdle == TrIdle /\ ClIdle

FnIdle ==
    /\ fnPc = "idle"
    /\ exposedEnvVars = <<>>
    /\ envA = <<>>
    /\ envB = <<>>
    /\ fnOutA = [err |-> "none", out |-> <<>>]
    /\ fnOutB = [err |-> "none", out |-> <<>>]
    /\ fnCall = [fn |-> "none", arg |-> "", res |-> ""]

GenIdle ==
    /\ tmplSrc = <<>>
    /\ schema = [required |-> {}]
    /\ values = <<>>
    /\ ctxCancelled = FALSE
    /\ genPc = "idle"
    /\ genErr = NoErr
    /\ cancelCalled = FALSE
    /\ listener = "none"
    /\ shutdownPc = "none"
    /\ servePc = "none"
    /\ aborted = FALSE
    /\ httpReq = "none"
    /\ respStatus = 0
    /\ respBody = <<>>
    /\ tmplErr = "none"
    /\ renderPc = "idle"
    /\ renderCtx = "none"
    /\ renderErr = "none"
    /\ outWritten = 0

Init ==
    /\ tmplSrc \in SeqsUpTo(GenNodes, MaxTmplLen)
    /\ schema \in Schemas
    /\ values \in ValueMaps
    /\ ctxCancelled = FALSE
    /\ genPc = "start"
    /\ genErr = NoErr
    /\ cancelCalled = FALSE
    /\ listener = "none"
    /\ shutdownPc = "none"
    /\ servePc = "none"
    /\ aborted = FALSE
    /\ httpReq = "none"
    /\ respStatus = 0
    /\ respBody = <<>>
    /\ tmplErr = "none"
    /\ renderPc = "idle"
    /\ renderCtx = "none"
    /\ renderErr = "none"
    /\ outWritten = 0
    /\ FnIdle
    /\ XIdle
    /\ YIdle

\* srvCtx, cancel := context.WithCancel(ctx): done once cancel() has run or
\* the parent is cancelled.
SrvCtxDone_Detached == cancelCalled
SrvCtxDone == cancelCalled \/ ctxCancelled

\* The context handed to pdfRenderer.Render is done.
RenderCtxDone == renderCtx = "ctx" /\ ctxCancelled

RenderInFlight == renderPc \in {"launch", "navigate", "stable", "pdf", "copy"}
RenderReturned == renderPc \in {"done", "failed"}

\* The caller cancels ctx.
CancelCtx ==
    /\ ~aborted
    /\ ~ctxCancelled
    /\ ctxCancelled' = TRUE
    /\ UNCHANGED <<tmplSrc, schema, values, genPc, genErr, cancelCalled, listener,
                   shutdownPc, servePc, aborted, httpReq, respStatus, respBody,
                   tmplErr, renderPc, renderCtx, renderErr, outWritten>>
    /\ UNCHANGED fnVars
    /\ UNCHANGED xVars
    /\ UNCHANGED yVars

\* Mutant of GenerateValidate: the validation result is ignored.
GenerateValidate_NoCheck ==
    /\ ~aborted
    /\ genPc = "start"
    /\ genPc' = "listen"
    /\ UNCHANGED <<tmplSrc, schema, values, ctxCancelled, genErr, cancelCalled,
                   listener, shutdownPc, servePc, aborted, httpReq, respStatus,
                   respBody, tmplErr, renderPc, renderCtx, renderErr, outWritten>>
    /\ UNCHANGED fnVars
    /\ UNCHANGED xVars
    /\ UNCHANGED yVars

\* Generate: if valid := t.Schema.Validate(v); !valid.Valid { return ... }
GenerateValidate ==
    /\ ~aborted
    /\ genPc = "start"
    /\ IF ~SchemaValid(schema, values)
       THEN /\ genErr' = [kind |-> "ErrInvalidValues",
                          detail |-> SchemaErrors(schema, values)]
            /\ genPc' = "returned"
       ELSE /\ genPc' = "listen"
            /\ UNCHANGED genErr
    /\ UNCHANGED <<tmplSrc, schema, values, ctxCancelled, cancelCalled,
                   listener, shutdownPc, servePc, aborted, httpReq, respStatus,
                   respBody, tmplErr, renderPc, renderCtx, renderErr, outWritten>>
    /\ UNCHANGED fnVars
    /\ UNCHANGED xVars
    /\ UNCHANGED yVars

\* temporaryServer: net.Listen("tcp", ":0"); on failure Generate returns
\* "generate: temporary server: ..." and its deferred cancel() runs.
temporaryServerListen ==
    /\ ~aborted
    /\ genPc = "listen"
    /\ \/ /\ listener' = "open"
          /\ genPc' = "spawn"
          /\ UNCHANGED <<genErr, cancelCalled>>
       \/ /\ genErr' = [kind |-> "generate", detail |-> {"temporary server"}]
          /\ cancelCalled' = TRUE
          /\ genPc' = "returned"
          /\ UNCHANGED listener
    /\ UNCHANGED <<tmplSrc, schema, values, ctxCancelled, shutdownPc, servePc,
                   aborted, httpReq, respStatus, respBody, tmplErr, renderPc,
                   renderCtx, renderErr, outWritten>>
    /\ UNCHANGED fnVars
    /\ UNCHANGED xVars
    /\ UNCHANGED yVars

\* Mutant of temporaryServerSpawn: the listener is closed when
\* temporaryServer returns (defer listener.Close() outside the goroutine).
temporaryServerSpawn_CloseOnReturn ==
    /\ ~aborted
    /\ genPc = "spawn"
    /\ shutdownPc' = "waiting"
    /\ servePc' = "spawned"
    /\ listener' = "closed"
    /\ genPc' = "call"
    /\ UNCHANGED <<tmplSrc, schema, values, ctxCancelled, genErr, cancelCalled,
                   aborted, httpReq, respStatus, respBody, tmplErr,
                   renderPc, renderCtx, renderErr, outWritten>>
    /\ UNCHANGED fnVars
    /\ UNCHANGED xVars
    /\ UNCHANGED yVars

\* temporaryServer: starts the two goroutines and returns the address.
temporaryServerSpawn ==
    /\ ~aborted
    /\ genPc = "spawn"
    /\ shutdownPc' = "waiting"
    /\ servePc' = "spawned"
    /\ genPc' = "call"
    /\ UNCHANGED <<tmplSrc, schema, values, ctxCancelled, genErr, cancelCalled,
                   listener, aborted, httpReq, respStatus, respBody, tmplErr,
                   renderPc, renderCtx, renderErr, outWritten>>
    /\ UNCHANGED fnVars
    /\ UNCHANGED xVars
    /\ UNCHANGED yVars

\* Generate: h.pdfRenderer.Render(ctx, serverAddr, w, opts) is called.
GenerateCallRender ==
    /\ ~aborted
    /\ genPc = "call"
    /\ renderPc' = "launch"
    /\ renderCtx' = "ctx"
    /\ genPc' = "render"
    /\ UNCHANGED <<tmplSrc, schema, values, ctxCancelled, genErr, cancelCalled,
                   listener, shutdownPc, servePc, aborted, httpReq, respStatus,
                   respBody, tmplErr, renderErr, outWritten>>
    /\ UNCHANGED fnVars
    /\ UNCHANGED xVars
    /\ UNCHANGED yVars

\* Mutant of GenerateReturn: the deferred cancel() is missing.
GenerateReturn_NoCancel ==
    /\ ~aborted
    /\ genPc = "render"
    /\ RenderReturned
    /\ genErr' = IF renderPc = "failed"
                 THEN [kind |-> "render PDF", detail |-> {renderErr}]
                 ELSE NoErr
    /\ genPc' = "returned"
    /\ UNCHANGED <<tmplSrc, schema, values, ctxCancelled, cancelCalled, listener,
                   shutdownPc, servePc, aborted, httpReq, respStatus, respBody,
                   tmplErr, renderPc, renderCtx, renderErr, outWritten>>
    /\ UNCHANGED fnVars
    /\ UNCHANGED xVars
    /\ UNCHANGED yVars

\* Mutant of GenerateReturn: a failed Render is started again.
GenerateReturn_Retry ==
    /\ ~aborted
    /\ genPc = "render"
    /\ RenderReturned
    /\ IF renderPc = "failed"
       THEN /\ renderPc' = "launch"
            /\ renderErr' = "none"
            /\ UNCHANGED <<genErr, cancelCalled, genPc>>
       ELSE /\ genErr' = NoErr
            /\ cancelCalled' = TRUE
            /\ genPc' = "returned"
            /\ UNCHANGED <<renderPc, renderErr>>
    /\ UNCHANGED <<tmplSrc, schema, values, ctxCancelled, listener,
                   shutdownPc, servePc, aborted, httpReq, respStatus, respBody,
                   tmplErr, renderCtx, outWritten>>
    /\ UNCHANGED fnVars
    /\ UNCHANGED xVars
    /\ UNCHANGED yVars

\* Generate: Render has returned; its error is wrapped ("render PDF: ...") or
\* nil is returned, and the deferred cancel() runs.
GenerateReturn ==
    /\ ~aborted
    /\ genPc = "render"
    /\ RenderReturned
    /\ genErr' = IF renderPc = "failed"
                 THEN [kind |-> "render PDF", detail |-> {renderErr}]
                 ELSE NoErr
    /\ cancelCalled' = TRUE
    /\ genPc' = "returned"
    /\ UNCHANGED <<tmplSrc, schema, values, ctxCancelled, listener,
                   shutdownPc, servePc, aborted, httpReq, respStatus, respBody,
                   tmplErr, renderPc, renderCtx, renderErr, outWritten>>
    /\ UNCHANGED fnVars
    /\ UNCHANGED xVars
    /\ UNCHANGED yVars


\* ------------------------------------------------- temporaryServer goroutines
\* Mutant of ServerShutdown: the goroutine does not wait for ctx.Done().
ServerShutdown_NoWait ==
    /\ ~aborted
    /\ shutdownPc = "waiting"
    /\ shutdownPc' = "done"
    /\ listener' = "closed"
    /\ UNCHANGED <<tmplSrc, schema, values, ctxCancelled, genPc, genErr,
                   cancelCalled, servePc, aborted, httpReq, respStatus, respBody,
                   tmplErr, renderPc, renderCtx, renderErr, outWritten>>
    /\ UNCHANGED fnVars
    /\ UNCHANGED xVars
    /\ UNCHANGED yVars

\* go func() { <-ctx.Done(); server.Shutdown(context.Background()) }():
\* Shutdown marks the server as shutting down and closes its listeners.
ServerShutdown ==
    /\ ~aborted
    /\ shutdownPc = "waiting"
    /\ SrvCtxDone
    /\ shutdownPc' = "done"
    /\ listener' = "closed"
    /\ UNCHANGED <<tmplSrc, schema, values, ctxCancelled, genPc, genErr,
                   cancelCalled, servePc, aborted, httpReq, respStatus, respBody,
                   tmplErr, renderPc, renderCtx, renderErr, outWritten>>
    /\ UNCHANGED fnVars
    /\ UNCHANGED xVars
    /\ UNCHANGED yVars

\* go func() { defer listener.Close(); server.Serve(listener) ... }():
\* Serve enters its accept loop.
ServeStart ==
    /\ ~aborted
    /\ servePc = "spawned"
    /\ shutdownPc # "done"
    /\ servePc' = "serving"
    /\ UNCHANGED <<tmplSrc, schema, values, ctxCancelled, genPc, genErr,
                   cancelCalled, listener, shutdownPc, aborted, httpReq,
                   respStatus, respBody, tmplErr, renderPc, renderCtx, renderErr,
                   outWritten>>
    /\ UNCHANGED fnVars
    /\ UNCHANGED xVars
    /\ UNCHANGED yVars

\* Serve returns http.ErrServerClosed after Shutdown (also when Shutdown ran
\* before Serve was entered); the deferred listener.Close() runs.
ServeClosed ==
    /\ ~aborted
    /\ servePc \in {"spawned", "serving"}
    /\ shutdownPc = "done"
    /\ servePc' = "exited"
    /\ listener' = "closed"
    /\ UNCHANGED <<tmplSrc, schema, values, ctxCancelled, genPc, genErr,
                   cancelCalled, shutdownPc, aborted, httpReq, respStatus,
                   respBody, tmplErr, renderPc, renderCtx, renderErr, outWritten>>
    /\ UNCHANGED fnVars
    /\ UNCHANGED xVars
    /\ UNCHANGED yVars

\* Serve returns another error (Accept failed): the deferred listener.Close()
\* runs and panic(err) ends the process.
ServePanic ==
    /\ ~aborted
    /\ servePc \in {"spawned", "serving"}
    /\ shutdownPc # "done"
    /\ servePc' = "panicked"
    /\ listener' = "closed"
    /\ aborted' = TRUE
    /\ UNCHANGED <<tmplSrc, schema, values, ctxCancelled, genPc, genErr,
                   cancelCalled, shutdownPc, httpReq, respStatus, respBody,
                   tmplErr, renderPc, renderCtx, renderErr, outWritten>>
    /\ UNCHANGED fnVars
    /\ UNCHANGED xVars
    /\ UNCHANGED yVars

\* Mutant of HandleRoot: the server answers only once Render has returned
\* (capture and serving one after the other).
HandleRoot_AfterRender ==
    /\ ~aborted
    /\ httpReq = "queued"
    /\ servePc = "serving"
    /\ listener = "open"
    /\ RenderReturned
    /\ LET r == TemplateRender(tmplSrc, exposedEnvVars, envA)
       IN  /\ tmplErr' = r.err
           /\ respBody' = IF r.err = "none" THEN r.out
                          ELSE Append(r.out, "render template")
           /\ respStatus' = IF r.err # "none" /\ r.out = <<>> THEN 500 ELSE 200
    /\ httpReq' = "answered"
    /\ UNCHANGED <<tmplSrc, schema, values, ctxCancelled, genPc, genErr,
                   cancelCalled, listener, shutdownPc, servePc, aborted,
                   renderPc, renderCtx, renderErr, outWritten>>
    /\ UNCHANGED fnVars
    /\ UNCHANGED xVars
    /\ UNCHANGED yVars

\* serve(): the "GET /{$}" handler. t.Render writes to the response as it
\* executes (the first write commits status 200); on an error http.Error
\* appends "render template" and sets 500 if nothing was written before.
HandleRoot ==
    /\ ~aborted
    /\ httpReq = "queued"
    /\ servePc = "serving"
    /\ listener = "open"
    /\ LET r == TemplateRender(tmplSrc, exposedEnvVars, envA)
       IN  /\ tmplErr' = r.err
           /\ respBody' = IF r.err = "none" THEN r.out
                          ELSE Append(r.out, "render template")
           /\ respStatus' = IF r.err # "none" /\ r.out = <<>> THEN 500 ELSE 200
    /\ httpReq' = "answered"
    /\ UNCHANGED <<tmplSrc, schema, values, ctxCancelled, genPc, genErr,
                   cancelCalled, listener, shutdownPc, servePc, aborted,
                   renderPc, renderCtx, renderErr, outWritten>>
    /\ UNCHANGED fnVars
    /\ UNCHANGED xVars
    /\ UNCHANGED yVars

\* ------------------------------------------------- pdfRenderer.Render
RenderFails(why) ==
    /\ renderPc' = "failed"
    /\ renderErr' = why

\* launcher ... Launch(), browser.Connect(), browser.Page()
RodLaunch ==
    /\ ~aborted
    /\ renderPc = "launch"
    /\ \/ /\ renderPc' = "navigate"
          /\ UNCHANGED renderErr
       \/ RenderFails("failed to launch browser")
    /\ UNCHANGED <<tmplSrc, schema, values, ctxCancelled, genPc, genErr,
                   cancelCalled, listener, shutdownPc, servePc, aborted, httpReq,
                   respStatus, respBody, tmplErr, renderCtx, outWritten>>
    /\ UNCHANGED fnVars
    /\ UNCHANGED xVars
    /\ UNCHANGED yVars

\* The page navigates to serverAddr: the connection is queued on an open
\* listener and refused (or reset while still queued) on a closed one. An
\* answer of any status is a loaded page.
RodNavigate ==
    /\ ~aborted
    /\ renderPc = "navigate"
    /\ \/ /\ httpReq = "none"
          /\ listener = "open"
          /\ httpReq' = "queued"
          /\ UNCHANGED <<renderPc, renderErr>>
       \/ /\ httpReq \in {"none", "queued"}
          /\ listener # "open"
          /\ httpReq' = "reset"
          /\ RenderFails("failed to navigate")
       \/ /\ httpReq = "answered"
          /\ renderPc' = "stable"
          /\ UNCHANGED <<httpReq, renderErr>>
    /\ UNCHANGED <<tmplSrc, schema, values, ctxCancelled, genPc, genErr,
                   cancelCalled, listener, shutdownPc, servePc, aborted,
                   respStatus, respBody, tmplErr, renderCtx, outWritten>>
    /\ UNCHANGED fnVars
    /\ UNCHANGED xVars
    /\ UNCHANGED yVars

\* page.WaitStable(1000 * time.Millisecond)
RodWaitStable ==
    /\ ~aborted
    /\ renderPc = "stable"
    /\ \/ /\ renderPc' = "pdf"
          /\ UNCHANGED renderErr
       \/ RenderFails("failed to wait for page load")
    /\ UNCHANGED <<tmplSrc, schema, values, ctxCancelled, genPc, genErr,
                   cancelCalled, listener, shutdownPc, servePc, aborted, httpReq,
                   respStatus, respBody, tmplErr, renderCtx, outWritten>>
    /\ UNCHANGED fnVars
    /\ UNCHANGED xVars
    /\ UNCHANGED yVars

\* page.PDF(...) with TransferMode ReturnAsStream
RodPDF ==
    /\ ~aborted
    /\ renderPc = "pdf"
    /\ \/ /\ renderPc' = "copy"
          /\ UNCHANGED renderErr
       \/ RenderFails("failed generate PDF from HTML")
    /\ UNCHANGED <<tmplSrc, schema, values, ctxCancelled, genPc, genErr,
                   cancelCalled, listener, shutdownPc, servePc, aborted, httpReq,
                   respStatus, respBody, tmplErr, renderCtx, outWritten>>
    /\ UNCHANGED fnVars
    /\ UNCHANGED xVars
    /\ UNCHANGED yVars

\* io.Copy(pdf, pdfStream): chunk by chunk straight into the caller's writer;
\* a read or write error ends it with what was already written.
RodCopy ==
    /\ ~aborted
    /\ renderPc = "copy"
    /\ \/ /\ outWritten < PdfChunks
          /\ outWritten' = outWritten + 1
          /\ UNCHANGED <<renderPc, renderErr>>
       \/ /\ outWritten = PdfChunks
          /\ renderPc' = "done"
          /\ UNCHANGED <<renderErr, outWritten>>
       \/ /\ outWritten < PdfChunks
          /\ RenderFails("failed to write PDF to output stream")
          /\ UNCHANGED outWritten
    /\ UNCHANGED <<tmplSrc, schema, values, ctxCancelled, genPc, genErr,
                   cancelCalled, listener, shutdownPc, servePc, aborted, httpReq,
                   respStatus, respBody, tmplErr, renderCtx>>
    /\ UNCHANGED fnVars
    /\ UNCHANGED xVars
    /\ UNCHANGED yVars

\* The context given to Render is done: the pending browser call returns its
\* error.
RodCancelled ==
    /\ ~aborted
    /\ RenderInFlight
    /\ RenderCtxDone
    /\ RenderFails("context canceled")
    /\ UNCHANGED <<tmplSrc, schema, values, ctxCancelled, genPc, genErr,
                   cancelCalled, listener, shutdownPc, servePc, aborted, httpReq,
                   respStatus, respBody, tmplErr, renderCtx, outWritten>>
    /\ UNCHANGED fnVars
    /\ UNCHANGED xVars
    /\ UNCHANGED yVars

Next ==
    \/ CancelCtx
    \/ GenerateValidate
    \/ temporaryServerListen
    \/ temporaryServerSpawn
    \/ GenerateCallRender
    \/ GenerateReturn
    \/ ServerShutdown
    \/ ServeStart
    \/ ServeClosed
    \/ ServePanic
    \/ HandleRoot
    \/ RodLaunch
    \/ RodNavigate
    \/ RodWaitStable
    \/ RodPDF
    \/ RodCopy
    \/ RodCancelled

Spec == Init /\ [][Next]_vars

\* The Go scheduler runs every runnable goroutine: Generate itself, the two
\* goroutines of temporaryServer and the handler. The browser is not under
\* the program's control and may stay silent; neither a cancellation nor a
\* failing Accept has to happen.
FairSpec ==
    /\ Spec
    /\ WF_vars(GenerateValidate)
    /\ WF_vars(temporaryServerListen)
    /\ WF_vars(temporaryServerSpawn)
    /\ WF_vars(GenerateCallRender)
    /\ WF_vars(GenerateReturn)
    /\ WF_vars(ServerShutdown)
    /\ WF_vars(ServeStart)
    /\ WF_vars(ServeClosed)
    /\ WF_vars(HandleRoot)


\* ------------------------------------------------- template functions: calls
FnNodes == EnvNodes \cup {TextNode}

\* Two process environments agree on the whitelist: each listed name is set in
\* both or in neither, and to the same value.
AgreeOn(list, e1, e2) ==
    \A k \in Range(list) :
        /\ (k \in DOMAIN e1) <=> (k \in DOMAIN e2)
        /\ Getenv(e1, k) = Getenv(e2, k)

InitFuncs ==
    /\ GenIdle
    /\ fnPc = "ready"
    /\ exposedEnvVars \in SeqsUpTo(EnvNames, MaxEnvList)
    /\ envA \in Environments
    /\ envB \in Environments
    /\ AgreeOn(exposedEnvVars, envA, envB)
    /\ fnOutA = [err |-> "none", out |-> <<>>]
    /\ fnOutB = [err |-> "none", out |-> <<>>]
    /\ fnCall = [fn |-> "none", arg |-> "", res |-> ""]
    /\ XIdle
    /\ YIdle

\* Template.Render of one template source, once in each process environment.
FnRender ==
    /\ fnPc = "ready"
    /\ \E src \in SeqsUpTo(FnNodes, MaxTmplLen) :
          /\ tmplSrc' = src
          /\ fnOutA' = TemplateRender(src, exposedEnvVars, envA)
          /\ fnOutB' = TemplateRender(src, exposedEnvVars, envB)
    /\ fnPc' = "rendered"
    /\ UNCHANGED <<exposedEnvVars, envA, envB, fnCall>>
    /\ UNCHANGED <<schema, values, ctxCancelled, genPc, genErr, cancelCalled,
                   listener, shutdownPc, servePc, aborted, httpReq, respStatus,
                   respBody, tmplErr, renderPc, renderCtx, renderErr, outWritten>>
    /\ UNCHANGED xVars
    /\ UNCHANGED yVars

\* {{env key}} through the registry Template.Render builds.
FnCallEnv ==
    /\ fnPc = "ready"
    /\ \E key \in EnvNames :
          fnCall' = [fn |-> "env", arg |-> key,
                     res |-> CallFunc(renderFuncs, [fn |-> "env", arg |-> key],
                                      exposedEnvVars, envA).val]
    /\ fnPc' = "called"
    /\ UNCHANGED <<exposedEnvVars, envA, envB, fnOutA, fnOutB>>
    /\ UNCHANGED genVars
    /\ UNCHANGED xVars
    /\ UNCHANGED yVars

NextFuncs ==
    \/ FnRender
    \/ FnCallEnv

SpecFuncs == InitFuncs /\ [][NextFuncs]_vars

\* ------------------------------------------------- i18n: the resolved locale
Locales == {"en", "de"}
Requested == {"en", "de", "fr", ""}

\* t.I18n: nil when config.yaml has no locale section, else a bundle of the
\* declared locales with the declared default.
NilBundle == [nil |-> TRUE, locales |-> {}, default |-> ""]
Bundles ==
    {NilBundle} \cup
    UNION {{[nil |-> FALSE, locales |-> L, default |-> d] : d \in L} :
           L \in (SUBSET Locales) \ {{}}}

\* bundle.MatchAvailableLocale(locale): the requested locale when the bundle
\* has it, the bundle's default otherwise.
MatchAvailableLocale(bundle, locale) ==
    IF locale \in bundle.locales THEN locale ELSE bundle.default

i18nLocale_Passthrough(bundle, locale) == locale

\* The locale i18nTemplateFuncs hands to localeFunc.
i18nLocale(bundle, locale) ==
    IF ~bundle.nil THEN MatchAvailableLocale(bundle, locale) ELSE locale

localeFunc(locale) == locale

\* ------------------------------------------------- asset prefixes
\* A string is held as the list of its parts between slashes:
\* "/a/b" is <<"", "a", "b">>, "a//b" is <<"a", "", "b">>, "" is <<"">>.
EmptyStr == <<"">>
ServePrefix == <<"", "assets">>
PreviewPrefix(name) == <<"", "templates", name, "assets">>

\* ------------------------------------------------- concurrent Template.Render
Calls == {1, 2}
Slots == {0} \cup Calls
NoFuncs == [asset |-> EmptyStr, locale |-> "", restricted |-> FALSE, list |-> <<>>]

IsoInputs ==
    [prefix : {ServePrefix, PreviewPrefix("a")},
     bundle : {NilBundle, [nil |-> FALSE, locales |-> Locales, default |-> "en"]},
     locale : {"de", "fr"},
     list : {<<>>, <<"A">>, <<"B">>}]

funcsOf_Global(c) == 0

\* funcs := templateFuncs(assetsPrefix): a map local to the call.
funcsOf(c) == c

InitIso ==
    /\ GenIdle /\ FnIdle /\ ChIdle /\ CallIdle /\ SrvIdle /\ YIdle
    /\ isoPc = [c \in Calls |-> "start"]
    /\ isoIn \in [Calls -> IsoInputs]
    /\ isoFuncs = [s \in Slots |-> NoFuncs]
    /\ isoSeen = [c \in Calls |-> NoFuncs]

IsoTemplateFuncs(c) ==
    /\ isoPc[c] = "start"
    /\ isoFuncs' = [isoFuncs EXCEPT ![funcsOf(c)] =
                       [NoFuncs EXCEPT !.asset = isoIn[c].prefix]]
    /\ isoPc' = [isoPc EXCEPT ![c] = "i18n"]
    /\ UNCHANGED <<isoIn, isoSeen>>
    /\ UNCHANGED <<genVars, fnVars, chVars, callVars, srvVars>>
    /\ UNCHANGED yVars

IsoI18nTemplateFuncs(c) ==
    /\ isoPc[c] = "i18n"
    /\ isoFuncs' = [isoFuncs EXCEPT ![funcsOf(c)].locale =
                       localeFunc(i18nLocale(isoIn[c].bundle, isoIn[c].locale))]
    /\ isoPc' = [isoPc EXCEPT ![c] = "env"]
    /\ UNCHANGED <<isoIn, isoSeen>>
    /\ UNCHANGED <<genVars, fnVars, chVars, callVars, srvVars>>
    /\ UNCHANGED yVars

IsoEnvTemplateFuncs(c) ==
    /\ isoPc[c] = "env"
    /\ isoFuncs' = [isoFuncs EXCEPT ![funcsOf(c)].restricted = TRUE,
                                    ![funcsOf(c)].list = isoIn[c].list]
    /\ isoPc' = [isoPc EXCEPT ![c] = "exec"]
    /\ UNCHANGED <<isoIn, isoSeen>>
    /\ UNCHANGED <<genVars, fnVars, chVars, callVars, srvVars>>
    /\ UNCHANGED yVars

\* template.New("").Funcs(funcs).Parse(...) and Execute: the template calls
\* the functions the map holds.
IsoExecute(c) ==
    /\ isoPc[c] = "exec"
    /\ isoSeen' = [isoSeen EXCEPT ![c] = isoFuncs[funcsOf(c)]]
    /\ isoPc' = [isoPc EXCEPT ![c] = "done"]
    /\ UNCHANGED <<isoIn, isoFuncs>>
    /\ UNCHANGED <<genVars, fnVars, chVars, callVars, srvVars>>
    /\ UNCHANGED yVars

NextIso ==
    \E c \in Calls :
        \/ IsoTemplateFuncs(c)
        \/ IsoI18nTemplateFuncs(c)
        \/ IsoEnvTemplateFuncs(c)
        \/ IsoExecute(c)

SpecIso == InitIso /\ [][NextIso]_vars

\* ------------------------------------------------- HTTP service: template cache
Handlers == 1..NumHandlers
TNames == {"a", "b"}
Kinds == {"render", "assets", "preview"}
NoTemplate == [id |-> 0, ver |-> 0]
NoRequest == [kind |-> "none", name |-> ""]

InitServer ==
    /\ GenIdle /\ FnIdle /\ ChIdle /\ CallIdle /\ IsoIdle /\ YIdle
    /\ disk \in [TNames -> 0..1]
    /\ cache = [n \in TNames |-> NoTemplate]
    /\ hPc = [h \in Handlers |-> "idle"]
    /\ hReq = [h \in Handlers |-> NoRequest]
    /\ hTmpl = [h \in Handlers |-> NoTemplate]
    /\ nextId = 0
    /\ stored = [n \in TNames |-> 0]
    /\ hCacheOps = [h \in Handlers |-> 0]
    /\ hLoads = [h \in Handlers |-> 0]

\* A template directory is created or edited while the service runs.
DiskWrite(n) ==
    /\ disk[n] < MaxVersion
    /\ disk' = [disk EXCEPT ![n] = @ + 1]
    /\ UNCHANGED <<cache, hPc, hReq, hTmpl, nextId, stored, hCacheOps, hLoads>>
    /\ UNCHANGED <<genVars, fnVars, chVars, callVars, isoVars>>
    /\ UNCHANGED yVars

HandlerStart_PreviewCached(h) ==
    /\ hPc[h] = "idle"
    /\ \E k \in Kinds, n \in TNames : hReq' = [hReq EXCEPT ![h] = [kind |-> k, name |-> n]]
    /\ hPc' = [hPc EXCEPT ![h] = "lookup"]
    /\ UNCHANGED <<disk, cache, hTmpl, nextId, stored, hCacheOps, hLoads>>
    /\ UNCHANGED <<genVars, fnVars, chVars, callVars, isoVars>>
    /\ UNCHANGED yVars

\* The router hands a request to server.render, server.assets or
\* server.preview: the first two call s.cachedTemplate, preview calls
\* s.loader.Load.
HandlerStart(h) ==
    /\ hPc[h] = "idle"
    /\ \E k \in Kinds, n \in TNames :
          /\ hReq' = [hReq EXCEPT ![h] = [kind |-> k, name |-> n]]
          /\ hPc' = [hPc EXCEPT ![h] = IF k = "preview" THEN "load" ELSE "lookup"]
    /\ UNCHANGED <<disk, cache, hTmpl, nextId, stored, hCacheOps, hLoads>>
    /\ UNCHANGED <<genVars, fnVars, chVars, callVars, isoVars>>
    /\ UNCHANGED yVars

\* if t, ok := s.cache[name]; ok { return t, nil }
cachedTemplateLookup(h) ==
    /\ hPc[h] = "lookup"
    /\ hCacheOps' = [hCacheOps EXCEPT ![h] = @ + 1]
    /\ IF cache[hReq[h].name] # NoTemplate
          THEN /\ hTmpl' = [hTmpl EXCEPT ![h] = cache[hReq[h].name]]
               /\ hPc' = [hPc EXCEPT ![h] = "done"]
          ELSE /\ hPc' = [hPc EXCEPT ![h] = "load"]
               /\ UNCHANGED hTmpl
    /\ UNCHANGED <<disk, cache, hReq, nextId, stored, hLoads>>
    /\ UNCHANGED <<genVars, fnVars, chVars, callVars, isoVars>>
    /\ UNCHANGED yVars

\* Mutant of loaderLoad: a failed load leaves an entry in the cache.
loaderLoad_CacheFailure(h) ==
    /\ hPc[h] = "load"
    /\ hLoads' = [hLoads EXCEPT ![h] = @ + 1]
    /\ IF disk[hReq[h].name] = 0
          THEN /\ hPc' = [hPc EXCEPT ![h] = "failed"]
               /\ nextId' = nextId + 1
               /\ cache' = [cache EXCEPT ![hReq[h].name] = [id |-> nextId + 1, ver |-> 0]]
               /\ UNCHANGED hTmpl
          ELSE /\ nextId' = nextId + 1
               /\ hTmpl' = [hTmpl EXCEPT ![h] =
                               [id |-> nextId + 1, ver |-> disk[hReq[h].name]]]
               /\ hPc' = [hPc EXCEPT ![h] =
                             IF hReq[h].kind = "preview" THEN "done" ELSE "store"]
               /\ UNCHANGED cache
    /\ UNCHANGED <<disk, hReq, stored, hCacheOps>>
    /\ UNCHANGED <<genVars, fnVars, chVars, callVars, isoVars>>
    /\ UNCHANGED yVars

\* t, err := s.loader.Load(name): a new Template object read from disk, or
\* ErrTemplateNotFound.
loaderLoad(h) ==
    /\ hPc[h] = "load"
    /\ hLoads' = [hLoads EXCEPT ![h] = @ + 1]
    /\ IF disk[hReq[h].name] = 0
          THEN /\ hPc' = [hPc EXCEPT ![h] = "failed"]
               /\ UNCHANGED <<hTmpl, nextId>>
          ELSE /\ nextId' = nextId + 1
               /\ hTmpl' = [hTmpl EXCEPT ![h] =
                               [id |-> nextId + 1, ver |-> disk[hReq[h].name]]]
               /\ hPc' = [hPc EXCEPT ![h] =
                             IF hReq[h].kind = "preview" THEN "done" ELSE "store"]
    /\ UNCHANGED <<disk, cache, hReq, stored, hCacheOps>>
    /\ UNCHANGED <<genVars, fnVars, chVars, callVars, isoVars>>
    /\ UNCHANGED yVars

\* s.cache[name] = t; return t, nil
cachedTemplateStore(h) ==
    /\ hPc[h] = "store"
    /\ cache' = [cache EXCEPT ![hReq[h].name] = hTmpl[h]]
    /\ stored' = [stored EXCEPT ![hReq[h].name] = @ + 1]
    /\ hCacheOps' = [hCacheOps EXCEPT ![h] = @ + 1]
    /\ hPc' = [hPc EXCEPT ![h] = "done"]
    /\ UNCHANGED <<disk, hReq, hTmpl, nextId, hLoads>>
    /\ UNCHANGED <<genVars, fnVars, chVars, callVars, isoVars>>
    /\ UNCHANGED yVars

\* Two handlers are at accesses of s.cache, one of them the assignment, with
\* nothing ordering them.
MapAccessRace ==
    \E h1, h2 \in Handlers :
        /\ h1 # h2
        /\ hPc[h1] = "store"
        /\ hPc[h2] \in {"lookup", "store"}

\* The accesses overlap and the runtime notices: "fatal error: concurrent map
\* writes" (or "concurrent map read and map write") ends the process. When it
\* does not notice, each access takes effect as a whole (the steps above).
mapAccessFatal ==
    /\ MapAccessRace
    /\ hPc' = [h \in Handlers |-> "fatal"]
    /\ UNCHANGED <<disk, cache, hReq, hTmpl, nextId, stored, hCacheOps, hLoads>>
    /\ UNCHANGED <<genVars, fnVars, chVars, callVars, isoVars>>
    /\ UNCHANGED yVars

NextServer ==
    \/ \E n \in TNames : DiskWrite(n)
    \/ \E h \in Handlers :
          \/ HandlerStart(h)
          \/ cachedTemplateLookup(h)
          \/ loaderLoad(h)
          \/ cachedTemplateStore(h)
    \/ mapAccessFatal

SpecServer == InitServer /\ [][NextServer]_vars

\* ------------------------------------------------- paths
\* (strings as lists of the parts between slashes, see EmptyStr)
Slash == <<"", "">>
Rooted(p) == Len(p) >= 2 /\ p[1] = ""

\* strings.Join(elems, "/")
RECURSIVE joinSlash(_)
joinSlash(elems) ==
    IF elems = <<>> THEN <<>> ELSE Head(elems) \o joinSlash(Tail(elems))

\* The loop of Clean: empty and "." parts are dropped, ".." removes the part
\* before it, is dropped at the root, and is kept at the start of a relative
\* path.
RECURSIVE cleanParts(_, _, _, _)
cleanParts(p, i, out, rooted) ==
    IF i > Len(p) THEN out
    ELSE IF p[i] \in {"", "."} THEN cleanParts(p, i + 1, out, rooted)
    ELSE IF p[i] = ".."
        THEN IF Len(out) > 0 /\ out[Len(out)] # ".."
                THEN cleanParts(p, i + 1, SubSeq(out, 1, Len(out) - 1), rooted)
                ELSE IF rooted
                    THEN cleanParts(p, i + 1, out, rooted)
                    ELSE cleanParts(p, i + 1, Append(out, ".."), rooted)
        ELSE cleanParts(p, i + 1, Append(out, p[i]), rooted)

\* filepath.Clean (path.Clean): "/" for an emptied rooted path, "." for an
\* emptied relative one.
filepathClean(p) ==
    LET out == cleanParts(p, 1, <<>>, Rooted(p))
    IN  IF Rooted(p)
           THEN <<"">> \o (IF out = <<>> THEN <<"">> ELSE out)
           ELSE IF out = <<>> THEN <<".">> ELSE out

\* filepath.Join (path.Join): empty elements are ignored, the rest joined
\* with slashes and cleaned; "" when nothing is left.
filepathJoin(elems) ==
    LET rest == SelectSeq(elems, LAMBDA e : e # EmptyStr)
    IN  IF rest = <<>> THEN EmptyStr ELSE filepathClean(joinSlash(rest))

\* ------------------------------------------------- subDirFS.Sub
PathParts == {"", ".", "..", "a", "b"}
DirArgs == UNION {[1..k -> PathParts] : k \in 1..MaxDirParts}

\* The file tree Sub looks at: directories /, /t, /t/a, /t/a/b, /a, /b and
\* files /t/b, /a/b.
FsDirs == {Slash, <<"", "t">>, <<"", "t", "a">>, <<"", "t", "a", "b">>,
           <<"", "a">>, <<"", "b">>}
FsFiles == {<<"", "t", "b">>, <<"", "a", "b">>}
FsRoots == {<<"", "t">>, <<"", "t", "a">>}

\* os.Stat(newPath), the IsDir check and the returned subDirFS
statDir(newPath) ==
    IF newPath \notin FsDirs \cup FsFiles
       THEN [err |-> "no such file or directory", root |-> EmptyStr]
       ELSE IF newPath \notin FsDirs
           THEN [err |-> "is not a directory", root |-> EmptyStr]
           ELSE [err |-> "nil", root |-> newPath]

subDirFS_Sub_NoAnchor(root, dir) ==
    statDir(filepathClean(filepathJoin(<<root, dir>>)))

subDirFS_Sub(root, dir) ==
    LET subPath == filepathJoin(<<Slash, dir>>)
        newPath == filepathClean(filepathJoin(<<root, subPath>>))
    IN  statDir(newPath)

\* ------------------------------------------------- serve(): the router
Methods == {"GET", "HEAD", "POST", "PUT", "DELETE"}
ReqPaths == UNION {{<<"">> \o q : q \in [1..k -> {"", "a", "..", "assets"}]} :
                   k \in 1..MaxReqParts}

\* The two patterns serve() registers.
AssetsPattern == [method |-> "GET", path |-> <<"", "assets", "">>, handler |-> "assets"]
RootPattern == [method |-> "GET", path |-> Slash, handler |-> "root"]
Patterns == {AssetsPattern, RootPattern}

methodMatches_Any(pm, m) == TRUE

\* A pattern's method matches the request's; GET also matches HEAD.
methodMatches(pm, m) == pm = m \/ (pm = "GET" /\ m = "HEAD")

\* "/{$}" matches the path "/" only; "/assets/" matches every path below it.
pathMatches(pat, p) ==
    IF pat.handler = "root"
       THEN p = Slash
       ELSE Len(p) >= 3 /\ SubSeq(p, 1, 2) = SubSeq(pat.path, 1, 2)

\* cleanPath of net/http: Clean, keeping a trailing slash.
cleanPath(p) ==
    LET np == filepathClean(p)
    IN  IF p[Len(p)] = "" /\ np # Slash THEN Append(np, "") ELSE np

\* ServeMux.ServeHTTP on the mux serve() builds: the handler run and what it
\* did. The root handler calls t.Render; the asset handler opens the named
\* file of t.Assets.
serve(method, path) ==
    LET hit == {pat \in Patterns : methodMatches(pat.method, method) /\ pathMatches(pat, path)}
        hitSlash == {pat \in Patterns : methodMatches(pat.method, method)
                                          /\ pathMatches(pat, Append(path, ""))}
        anyMethod == {pat \in Patterns : pathMatches(pat, path)}
        handler == IF path # cleanPath(path) THEN "redirect"
                   ELSE IF hit # {} THEN (CHOOSE pat \in hit : TRUE).handler
                   ELSE IF hitSlash # {} THEN "redirect"
                   ELSE IF anyMethod # {} THEN "405"
                   ELSE "404"
    IN  [handler |-> handler,
         rendered |-> handler = "root",
         assetRead |-> handler = "assets"]

\* ------------------------------------------------- asset
AssetPrefixes == {EmptyStr, ServePrefix, PreviewPrefix("a")}
Segments == UNION {[1..k -> {"", "a", "b"}] : k \in 1..2}

\* strings.Join(elems, "/") of a possibly empty list
strJoin(elems) == IF elems = <<>> THEN EmptyStr ELSE joinSlash(elems)

assetFunc_Concat(prefix, segs) == prefix \o strJoin(segs)

\* {{asset "images" "logo.png"}}: the prefix and the segments, path-joined.
assetFunc(prefix, segs) == filepathJoin(<<prefix>> \o segs)

\* ------------------------------------------------- fsLoader.Load
\* What Load finds for each file of the template directory:
\*   "absent"      no such file
\*   "noperm"      Stat and Open fail with another error
\*   "ok"          present and well-formed
\*   "bad"         present, readable, malformed
\*   "unreadable"  Stat and Open succeed, reading fails (a directory, an I/O error)
RequiredFiles == <<"template.html", "config.yaml", "schema.json">>
FileSets ==
    [content : {"absent", "noperm", "ok", "unreadable"},
     config : {"absent", "noperm", "ok", "bad", "unreadable"},
     schema : {"absent", "noperm", "ok", "bad", "unreadable"},
     locales : {"unconfigured", "ok", "bad"},
     example : {"absent", "noperm", "ok", "bad"}]

StateOf(files, p) ==
    IF p = "template.html" THEN files.content
    ELSE IF p = "config.yaml" THEN files.config
    ELSE files.schema

LoadErr(kind, what) == [tmpl |-> "nil", content |-> "", err |-> [kind |-> kind, what |-> what]]
LoadOk(content) == [tmpl |-> "tmpl", content |-> content, err |-> [kind |-> "nil", what |-> ""]]

\* The loop over contentPath, configPath, schemaPath: the first file whose
\* Stat fails decides.
RECURSIVE statRequired(_, _)
statRequired(files, i) ==
    IF i > Len(RequiredFiles) THEN LoadOk("")
    ELSE IF StateOf(files, RequiredFiles[i]) = "absent"
        THEN LoadErr("ErrTemplateNotFound", RequiredFiles[i])
    ELSE IF StateOf(files, RequiredFiles[i]) = "noperm"
        THEN LoadErr("other", "stat file")
    ELSE statRequired(files, i + 1)

\* tmpl.ReadFrom(fh): the result is dropped; what was read before a failure
\* stays in the buffer.
readContent(files) ==
    IF files.content = "unreadable" THEN LoadOk("partial") ELSE LoadOk("full")

fsLoaderLoad(files) ==
    IF statRequired(files, 1).err.kind # "nil" THEN statRequired(files, 1)
    ELSE IF files.config \in {"bad", "unreadable"} THEN LoadErr("other", "decode config file")
    ELSE IF files.schema = "unreadable" THEN LoadErr("other", "read schema file")
    ELSE IF files.schema = "bad" THEN LoadErr("other", "compile schema")
    ELSE IF readContent(files).err.kind # "nil" THEN readContent(files)
    ELSE IF files.locales = "bad" THEN LoadErr("other", "load locales")
    ELSE IF files.example = "noperm" THEN LoadErr("other", "open example data file")
    ELSE IF files.example = "bad" THEN LoadErr("other", "decode example data file")
    ELSE readContent(files)

CallLoad ==
    /\ callPc = "ready"
    /\ \E files \in FileSets :
          call' = [fn |-> "Load", arg |-> files, res |-> fsLoaderLoad(files)]
    /\ callPc' = "called"
    /\ UNCHANGED <<genVars, fnVars, chVars, isoVars, srvVars>>
    /\ UNCHANGED yVars

\* ------------------------------------------------- Client.Render
\* What c.httpClient.Do and the reading of the body give: a transport error,
\* or a response with a status and a body of which io.ReadAll gets the first
\* `got` chunks (all of them unless the read fails).
Responses ==
    {[transportErr |-> TRUE, status |-> 0, body |-> <<>>, got |-> 0]} \cup
    UNION {{[transportErr |-> FALSE, status |-> st, body |-> b, got |-> g] :
               g \in 0..Len(b)} :
           st \in {200, 204, 404, 500}, b \in SeqsUpTo({"x", "y"}, MaxBodyLen)}

ClientErr(kind, status, text) == [kind |-> kind, status |-> status, text |-> text]

clientRender_Accept2xx(resp) ==
    IF resp.transportErr
       THEN [body |-> "nil", err |-> ClientErr("transport", 0, <<>>), closed |-> FALSE]
       ELSE IF resp.status >= 300
           THEN [body |-> "nil",
                 err |-> ClientErr("ErrNotOK", resp.status, SubSeq(resp.body, 1, resp.got)),
                 closed |-> TRUE]
           ELSE [body |-> "open", err |-> ClientErr("nil", 0, <<>>), closed |-> FALSE]

\* Client.Render from the answer of the server on: the error of Do wrapped,
\* or for a status other than 200 the body read, closed by the deferred
\* Close and put into the error, or res.Body returned as it is.
clientRender(resp) ==
    IF resp.transportErr
       THEN [body |-> "nil", err |-> ClientErr("transport", 0, <<>>), closed |-> FALSE]
       ELSE IF resp.status # 200
           THEN [body |-> "nil",
                 err |-> ClientErr("ErrNotOK", resp.status, SubSeq(resp.body, 1, resp.got)),
                 closed |-> TRUE]
           ELSE [body |-> "open", err |-> ClientErr("nil", 0, <<>>), closed |-> FALSE]

CallClientRender ==
    /\ callPc = "ready"
    /\ \E resp \in Responses :
          call' = [fn |-> "ClientRender", arg |-> resp, res |-> clientRender(resp)]
    /\ callPc' = "called"
    /\ UNCHANGED <<genVars, fnVars, chVars, isoVars, srvVars>>
    /\ UNCHANGED yVars

\* ------------------------------------------------- direct calls
InitCalls ==
    /\ GenIdle /\ FnIdle /\ ChIdle /\ IsoIdle /\ SrvIdle /\ YIdle
    /\ callPc = "ready"
    /\ call = [fn |-> "none"]

CallSub ==
    /\ callPc = "ready"
    /\ \E root \in FsRoots, dir \in DirArgs :
          call' = [fn |-> "Sub", arg |-> [root |-> root, dir |-> dir],
                   res |-> subDirFS_Sub(root, dir)]
    /\ callPc' = "called"
    /\ UNCHANGED <<genVars, fnVars, chVars, isoVars, srvVars>>
    /\ UNCHANGED yVars

CallServe ==
    /\ callPc = "ready"
    /\ \E m \in Methods, p \in ReqPaths :
          call' = [fn |-> "serve", arg |-> [method |-> m, path |-> p],
                   res |-> serve(m, p)]
    /\ callPc' = "called"
    /\ UNCHANGED <<genVars, fnVars, chVars, isoVars, srvVars>>
    /\ UNCHANGED yVars

CallAsset ==
    /\ callPc = "ready"
    /\ \E prefix \in AssetPrefixes, segs \in SeqsUpTo(Segments, MaxSegs) :
          call' = [fn |-> "asset", arg |-> [prefix |-> prefix, segs |-> segs],
                   res |-> assetFunc(prefix, segs)]
    /\ callPc' = "called"
    /\ UNCHANGED <<genVars, fnVars, chVars, isoVars, srvVars>>
    /\ UNCHANGED yVars

CallLocale ==
    /\ callPc = "ready"
    /\ \E bundle \in Bundles, locale \in Requested :
          call' = [fn |-> "locale", arg |-> [bundle |-> bundle, locale |-> locale],
                   res |-> localeFunc(i18nLocale(bundle, locale))]
    /\ callPc' = "called"
    /\ UNCHANGED <<genVars, fnVars, chVars, isoVars, srvVars>>
    /\ UNCHANGED yVars

NextCalls ==
    \/ CallSub
    \/ CallServe
    \/ CallAsset
    \/ CallLocale
    \/ CallLoad
    \/ CallClientRender

SpecCalls == InitCalls /\ [][NextCalls]_vars

\* ------------------------------------------------- chunk
ChunkElems == {1, 2}
NilRet == [kind |-> "nil", val |-> <<>>]

InitChunk ==
    /\ GenIdle /\ FnIdle /\ CallIdle /\ IsoIdle /\ SrvIdle /\ YIdle
    /\ chPc = "ready"
    /\ chNargs \in 0..2
    /\ chArr \in SeqsUpTo(ChunkElems, MaxArrLen)
    /\ chN \in (0 - 1)..MaxChunkSize
    /\ chI = 0
    /\ chChunks = <<>>
    /\ chRet = [kind |-> "none", val |-> <<>>]

\* if len(args) < 2 { return nil }; arr, n from the arguments;
\* chunks := make([][]any, 0)
chunkEnter ==
    /\ chPc = "ready"
    /\ IF chNargs < 2
          THEN chPc' = "done" /\ chRet' = NilRet
          ELSE chPc' = "loop" /\ UNCHANGED chRet
    /\ UNCHANGED <<chNargs, chArr, chN, chI, chChunks>>
    /\ UNCHANGED <<genVars, fnVars, callVars, isoVars, srvVars>>
    /\ UNCHANGED yVars

chunkIter_StepOne ==
    /\ chPc = "loop"
    /\ chI < Len(chArr)
    /\ Len(chChunks) < MaxIter
    /\ LET end == IF chI + chN < Len(chArr) THEN chI + chN ELSE Len(chArr)
       IN  IF end < chI
              THEN chPc' = "panicked" /\ UNCHANGED <<chI, chChunks>>
              ELSE /\ chChunks' = Append(chChunks, SubSeq(chArr, chI + 1, end))
                   /\ chI' = chI + 1
                   /\ UNCHANGED chPc
    /\ UNCHANGED <<chNargs, chArr, chN, chRet>>
    /\ UNCHANGED <<genVars, fnVars, callVars, isoVars, srvVars>>
    /\ UNCHANGED yVars

\* One pass of: for i := 0; i < len(arr); i += n { end := min(i+n, len(arr));
\* chunks = append(chunks, arr[i:end]) }. The slice expression panics when
\* end < i. The loop has no bound of its own; MaxIter caps the chunks held.
chunkIter ==
    /\ chPc = "loop"
    /\ chI < Len(chArr)
    /\ Len(chChunks) < MaxIter
    /\ LET end == IF chI + chN < Len(chArr) THEN chI + chN ELSE Len(chArr)
       IN  IF end < chI
              THEN chPc' = "panicked" /\ UNCHANGED <<chI, chChunks>>
              ELSE /\ chChunks' = Append(chChunks, SubSeq(chArr, chI + 1, end))
                   /\ chI' = chI + chN
                   /\ UNCHANGED chPc
    /\ UNCHANGED <<chNargs, chArr, chN, chRet>>
    /\ UNCHANGED <<genVars, fnVars, callVars, isoVars, srvVars>>
    /\ UNCHANGED yVars

\* The loop condition fails: return chunks
chunkReturn ==
    /\ chPc = "loop"
    /\ chI >= Len(chArr)
    /\ chPc' = "done"
    /\ chRet' = [kind |-> "chunks", val |-> chChunks]
    /\ UNCHANGED <<chNargs, chArr, chN, chI, chChunks>>
    /\ UNCHANGED <<genVars, fnVars, callVars, isoVars, srvVars>>
    /\ UNCHANGED yVars

NextChunk ==
    \/ chunkEnter
    \/ chunkIter
    \/ chunkReturn

SpecChunk == InitChunk /\ [][NextChunk]_vars

\* ------------------------------------------------- tr and trLocale
Regs == {1, 2}
TrKeys == {"hello", "unknown"}
TrArgs == SeqsUpTo({"name"}, 2)
FullBundle == [nil |-> FALSE, locales |-> Locales, default |-> "en"]
NoLocalizer == [id |-> 0, locale |-> ""]
NoVars == [k \in {} |-> ""]

\* The translation files of the bundle.
Messages == [en |-> [hello |-> "Hello"], de |-> [hello |-> "Hallo"]]

\* i18nVars(args): the arguments taken in pairs, a nil appended to an odd
\* number of them.
i18nVars(args) ==
    LET padded == IF Len(args) % 2 # 0 THEN Append(args, "<nil>") ELSE args
        pairs == 1..(Len(padded) \div 2)
    IN  [k \in {padded[2 * i - 1] : i \in pairs} |->
            padded[2 * (CHOOSE i \in pairs :
                           /\ padded[2 * i - 1] = k
                           /\ \A j \in pairs : padded[2 * j - 1] = k => j <= i)]]

\* localizer.Get(key, vars): the message of the key, the key itself when the
\* locale has none. Called on a nil localizer it panics.
localizerGet(l, key, tvars) ==
    IF l = NoLocalizer
       THEN [text |-> "", vars |-> NoVars, panic |-> TRUE]
       ELSE [text |-> IF key \in DOMAIN Messages[l.locale]
                         THEN Messages[l.locale][key] ELSE key,
             vars |-> tvars, panic |-> FALSE]

Marked(text) == [text |-> text, vars |-> NoVars, panic |-> FALSE]

translateFunc_NoNilCheck(localizer, key, args) ==
    localizerGet(localizer, key, i18nVars(args))

\* The function translateFunc(localizer) returns.
translateFunc(localizer, key, args) ==
    IF localizer = NoLocalizer
       THEN Marked("!(localizer is nil)")
       ELSE localizerGet(localizer, key, i18nVars(args))

\* i18nTemplateFuncs on two registries: with a bundle, the localizer of the
\* render's locale is made for tr; the map of trLocale starts empty.
InitTr ==
    /\ GenIdle /\ FnIdle /\ XIdle /\ ClIdle
    /\ trBundle \in [Regs -> {NilBundle, FullBundle}]
    /\ \E loc \in [Regs -> Locales] :
          trLocalizer = [r \in Regs |->
                            IF trBundle[r].nil THEN NoLocalizer
                            ELSE [id |-> r, locale |-> loc[r]]]
    /\ localizers = [r \in Regs |-> [l \in Requested |-> NoLocalizer]]
    /\ trCreated = [r \in Regs |-> [l \in Requested |-> 0]]
    /\ nextLocalizer = Cardinality(Regs)
    /\ trCalls = 0
    /\ trLast = [fn |-> "none"]

\* {{tr key args...}}
trCall(r) ==
    /\ trCalls < MaxTrCalls
    /\ trCalls' = trCalls + 1
    /\ \E key \in TrKeys, args \in TrArgs :
          trLast' = [fn |-> "tr", reg |-> r, locale |-> "", key |-> key,
                     args |-> args, localizer |-> trLocalizer[r],
                     res |-> translateFunc(trLocalizer[r], key, args)]
    /\ UNCHANGED <<trBundle, trLocalizer, localizers, trCreated, nextLocalizer>>
    /\ UNCHANGED <<genVars, fnVars, xVars, clVars>>

trLocaleCall_NoStore(r) ==
    /\ trCalls < MaxTrCalls
    /\ trCalls' = trCalls + 1
    /\ ~trBundle[r].nil
    /\ \E locale \in Requested, key \in TrKeys, args \in TrArgs :
          LET made == [id |-> nextLocalizer + 1,
                       locale |-> MatchAvailableLocale(trBundle[r], locale)]
          IN  /\ nextLocalizer' = nextLocalizer + 1
              /\ trCreated' = [trCreated EXCEPT ![r][locale] = @ + 1]
              /\ trLast' = [fn |-> "trLocale", reg |-> r, locale |-> locale,
                            key |-> key, args |-> args, localizer |-> made,
                            res |-> localizerGet(made, key, i18nVars(args))]
    /\ UNCHANGED <<trBundle, trLocalizer, localizers>>
    /\ UNCHANGED <<genVars, fnVars, xVars, clVars>>

\* {{trLocale locale key args...}}: the function translateLocaleFunc(bundle)
\* returns, with the localizers map it closes over.
trLocaleCall(r) ==
    /\ trCalls < MaxTrCalls
    /\ trCalls' = trCalls + 1
    /\ \E locale \in Requested, key \in TrKeys, args \in TrArgs :
          IF trBundle[r].nil
             THEN /\ trLast' = [fn |-> "trLocale", reg |-> r, locale |-> locale,
                                key |-> key, args |-> args, localizer |-> NoLocalizer,
                                res |-> Marked("!(bundle is nil)")]
                  /\ UNCHANGED <<localizers, trCreated, nextLocalizer>>
             ELSE LET exists == localizers[r][locale] # NoLocalizer
                      made == [id |-> nextLocalizer + 1,
                               locale |-> MatchAvailableLocale(trBundle[r], locale)]
                      localizer == IF exists THEN localizers[r][locale] ELSE made
                  IN  /\ IF exists
                            THEN UNCHANGED <<localizers, trCreated, nextLocalizer>>
                            ELSE /\ localizers' = [localizers EXCEPT ![r][locale] = made]
                                 /\ trCreated' = [trCreated EXCEPT ![r][locale] = @ + 1]
                                 /\ nextLocalizer' = nextLocalizer + 1
                      /\ trLast' = [fn |-> "trLocale", reg |-> r, locale |-> locale,
                                    key |-> key, args |-> args, localizer |-> localizer,
                                    res |-> IF localizer = NoLocalizer
                                               THEN Marked("!(localizer is nil)")
                                               ELSE localizerGet(localizer, key, i18nVars(args))]
    /\ UNCHANGED <<trBundle, trLocalizer>>
    /\ UNCHANGED <<genVars, fnVars, xVars, clVars>>

NextTr ==
    \E r \in Regs :
        \/ trCall(r)
        \/ trLocaleCall(r)

SpecTr == InitTr /\ [][NextTr]_vars

\* ------------------------------------------------- cachingFSLoader, renderer.Render
\* Requests that load the one template and render it.
Callers == {1, 2}

\* template.html as the pieces successive Reads return.
Sources == SeqsUpTo({"a", "b"}, MaxSrcLen)

NotRead == [done |-> FALSE, content |-> <<>>]

InitCl ==
    /\ GenIdle /\ FnIdle /\ XIdle /\ TrIdle
    /\ clDisk \in Sources
    /\ clCache = [cached |-> FALSE, src |-> <<>>, buf |-> <<>>]
    /\ clHeld = [c \in Callers |-> "none"]
    /\ clRenders = 0
    /\ clLast = [c \in Callers |-> NotRead]

\* The file is edited on disk.
clDiskWrite ==
    /\ \E src \in Sources \ {clDisk} : clDisk' = src
    /\ UNCHANGED <<clCache, clHeld, clRenders, clLast>>
    /\ UNCHANGED <<genVars, fnVars, xVars, trVars>>

\* cachingFSLoader.Load: the cached *Template as it is, or the template of
\* fsLoader.Load with its Content copied into a mutexBuffer and stored.
cachingFSLoaderLoad(c) ==
    /\ clHeld[c] = "none"
    /\ clCache' = IF clCache.cached
                  THEN clCache
                  ELSE [cached |-> TRUE, src |-> clDisk, buf |-> clDisk]
    /\ clHeld' = [clHeld EXCEPT ![c] = "held"]
    /\ clLast' = [clLast EXCEPT ![c] = NotRead]
    /\ UNCHANGED <<clDisk, clRenders>>
    /\ UNCHANGED <<genVars, fnVars, xVars, trVars>>

\* renderer.Render is entered with the template the caller holds.
rendererRenderEnter(c) ==
    /\ clHeld[c] = "held"
    /\ clRenders < MaxRenders
    /\ clRenders' = clRenders + 1
    /\ clHeld' = [clHeld EXCEPT ![c] = "reading"]
    /\ UNCHANGED <<clDisk, clCache, clLast>>
    /\ UNCHANGED <<genVars, fnVars, xVars, trVars>>

\* io.ReadAll(tmpl.Content): one mutexBuffer.Read, which hands out the next
\* piece of the bytes.Buffer and drops it from the buffer.
rendererRenderRead(c) ==
    /\ clHeld[c] = "reading"
    /\ clCache.buf # <<>>
    /\ clLast' = [clLast EXCEPT ![c].content = Append(@, Head(clCache.buf))]
    /\ clCache' = [clCache EXCEPT !.buf = Tail(@)]
    /\ UNCHANGED <<clDisk, clHeld, clRenders>>
    /\ UNCHANGED <<genVars, fnVars, xVars, trVars>>

\* The buffer is empty: Read returns io.EOF, ReadAll returns what it has and
\* Render parses and executes that; the deferred Close is a no-op.
rendererRenderEOF(c) ==
    /\ clHeld[c] = "reading"
    /\ clCache.buf = <<>>
    /\ clLast' = [clLast EXCEPT ![c].done = TRUE]
    /\ clHeld' = [clHeld EXCEPT ![c] = "none"]
    /\ UNCHANGED <<clDisk, clCache, clRenders>>
    /\ UNCHANGED <<genVars, fnVars, xVars, trVars>>

NextCl ==
    \/ clDiskWrite
    \/ \E c \in Callers : cachingFSLoaderLoad(c)
    \/ \E c \in Callers : rendererRenderEnter(c)
    \/ \E c \in Callers : rendererRenderRead(c)
    \/ \E c \in Callers : rendererRenderEOF(c)

SpecCl == InitCl /\ [][NextCl]_vars


\* =================================================================== claims
ServerStarted == listener # "none"
ServerStopped == listener = "closed" /\ servePc \in {"exited", "panicked"}

\* C1 (as stated): on every exit path of Generate that started the temporary
\* server, the listener is closed and the serving goroutine has stopped by
\* the time Generate has returned.
C1_ClosedAtReturn ==
    (genPc = "returned" /\ ServerStarted) => ServerStopped

\* C1 (amended): on every exit path of Generate that started the temporary
\* server, the server's context is done by the time Generate has returned, and
\* from then on the listener is eventually closed and the serving goroutine
\* eventually stopped.
C1_ClosedAfterReturn ==
    /\ []((genPc = "returned" /\ ServerStarted) => SrvCtxDone)
    /\ ((genPc = "returned" /\ ServerStarted) ~> ServerStopped)

\* Generate returned nil under a live context and the server is torn down.
C1_Witness ==
    /\ genPc = "returned"
    /\ genErr = NoErr
    /\ ~ctxCancelled
    /\ ServerStopped
    /\ shutdownPc = "done"

\* C2: Generate returns ErrInvalidValues exactly when the schema rejects the
\* values, and the error then carries every violation the validation found.
C2_InvalidValuesIff ==
    genPc = "returned" =>
        /\ (genErr.kind = "ErrInvalidValues") <=> ~SchemaValid(schema, values)
        /\ genErr.kind = "ErrInvalidValues" =>
               /\ genErr.detail = SchemaErrors(schema, values)
               /\ genErr.detail # {}

\* Generate rejected values that miss one required field and mistype another.
C2_Witness ==
    /\ genPc = "returned"
    /\ genErr.kind = "ErrInvalidValues"
    /\ Cardinality(genErr.detail) = 2
    /\ listener = "none"

\* C3: once temporaryServer has returned the address, and while the server's
\* context is live and the process runs, the listener is bound and open, so a
\* connection to the address is not refused.
C3_AddrAfterListen ==
    (genPc \in {"call", "render"} /\ ~SrvCtxDone /\ ~aborted) => listener = "open"

\* The browser's connection is queued on the open listener before the serving
\* goroutine has entered its accept loop.
C3_Witness ==
    /\ renderPc = "navigate"
    /\ httpReq = "queued"
    /\ servePc = "spawned"
    /\ listener = "open"
    /\ ~SrvCtxDone

\* C4: the shutdown of the temporary server has been initiated only if
\* pdfRenderer.Render has returned or the caller's context is cancelled.
C4_ShutdownOnlyAfter ==
    shutdownPc = "done" => (RenderReturned \/ ctxCancelled)

\* The shutdown ran after a successful capture, under a live caller context.
C4_Witness ==
    /\ shutdownPc = "done"
    /\ renderPc = "done"
    /\ ~ctxCancelled

\* C5: the context cancelled by the caller is the one an in-flight Render
\* holds, and once it is cancelled an open listener of the temporary server
\* is eventually closed.
C5_CancelPropagates ==
    /\ []((RenderInFlight /\ ctxCancelled) => RenderCtxDone)
    /\ ((ctxCancelled /\ listener = "open") ~> listener = "closed")

\* The caller cancelled during the capture: Render returned the cancellation
\* and the server was shut down before Generate returned.
C5_Witness ==
    /\ ctxCancelled
    /\ genPc = "render"
    /\ renderPc = "failed"
    /\ renderErr = "context canceled"
    /\ shutdownPc = "done"
    /\ listener = "closed"

\* C6: when Generate has returned an error nothing was written to the
\* caller's writer, and when it returned nil the whole PDF was.
C6_AllOrNothing ==
    genPc = "returned" =>
        /\ genErr # NoErr => outWritten = 0
        /\ genErr = NoErr => outWritten = PdfChunks

\* C7: a Generate call during which the root handler's template render
\* failed returns an error.
C7_RenderFailureReturned ==
    (genPc = "returned" /\ tmplErr # "none") => genErr # NoErr

\* C8: a failure to bind or to serve never ends the process; a bind failure
\* is returned by Generate and leaves no listener open.
C8_ServerFailureReturned ==
    /\ ~aborted
    /\ (genPc = "returned" /\ genErr.kind = "generate") => listener # "open"

\* C9: renders of one template in two process environments that agree on the
\* whitelist give the same result and the same output.
C9_NoLeakOutsideWhitelist ==
    fnPc = "rendered" => fnOutA = fnOutB

\* C10: env(name) is the process value of name when name is whitelisted (the
\* empty string when it is unset) and the empty string when it is not.
C10_EnvWhitelist ==
    fnCall.fn = "env" =>
        fnCall.res = IF fnCall.arg \in Range(exposedEnvVars)
                     THEN (IF fnCall.arg \in DOMAIN envA THEN envA[fnCall.arg] ELSE "")
                     ELSE ""

\* env of a variable that is set in the process but not whitelisted gave "".
C10_Witness ==
    /\ fnCall.fn = "env"
    /\ fnCall.arg \notin Range(exposedEnvVars)
    /\ fnCall.arg \in DOMAIN envA
    /\ envA[fnCall.arg] # ""
    /\ fnCall.res = ""

\* What a Render call with these inputs hands its template when it runs alone.
IsoOwn(in) ==
    [asset |-> in.prefix, locale |-> i18nLocale(in.bundle, in.locale),
     restricted |-> TRUE, list |-> in.list]

\* C11: of two concurrent Template.Render calls, each executes its template
\* with its own asset prefix, its own resolved locale and its own env
\* whitelist, whatever the other call passes and however the two interleave.
C11_RenderIsolation ==
    \A c \in Calls : isoPc[c] = "done" => isoSeen[c] = IsoOwn(isoIn[c])

\* One call has executed while the other, with another prefix, locale and
\* whitelist, holds its finished registry and is about to execute.
C11_Witness ==
    /\ isoPc[1] = "done"
    /\ isoPc[2] = "exec"
    /\ isoIn[1].prefix # isoIn[2].prefix
    /\ isoIn[1].list # isoIn[2].list
    /\ isoSeen[1].locale # isoFuncs[funcsOf(2)].locale

\* C12: over any interleaving of render and asset requests the cache is
\* populated at most once per template name, and every request served from
\* the cache holds the one Template object the cache holds for its name.
C12_PopulatedOnce ==
    \A n \in TNames :
        /\ stored[n] <= 1
        /\ \A h \in Handlers :
              (hPc[h] = "done" /\ hReq[h].kind # "preview" /\ hReq[h].name = n)
                  => hTmpl[h] = cache[n]

\* C13: a preview request calls loader.Load exactly once and never touches
\* the cache: it neither looks the template up in it nor stores into it, and
\* the Template it renders is not the cached object.
C13_PreviewBypassesCache ==
    \A h \in Handlers :
        (hReq[h].kind = "preview" /\ hPc[h] \in {"done", "failed"})
            => /\ hLoads[h] = 1
               /\ hCacheOps[h] = 0
               /\ hPc[h] = "done" => \A n \in TNames : hTmpl[h].id # cache[n].id

\* A preview has rendered a version of the template newer than the one the
\* cache holds for the same name.
C13_Witness ==
    \E h \in Handlers :
        /\ hReq[h].kind = "preview"
        /\ hPc[h] = "done"
        /\ cache[hReq[h].name] # NoTemplate
        /\ cache[hReq[h].name].ver < hTmpl[h].ver

\* p lies inside root: it is root or a path below it, with no "." or ".."
\* part left in it.
Inside(root, p) ==
    /\ Len(p) >= Len(root)
    /\ SubSeq(p, 1, Len(root)) = root
    /\ \A i \in 2..Len(p) : p[i] \notin {"", ".", ".."}

\* C14: for every argument, ".." parts and leading, trailing or repeated
\* slashes included, subDirFS.Sub returns an error or a file system whose
\* root is an existing directory inside the receiver's root.
C14_SubStaysInside ==
    call.fn = "Sub" =>
        \/ call.res.err # "nil"
        \/ /\ Inside(call.arg.root, call.res.root)
           /\ call.res.root \in FsDirs

\* Sub succeeded on an argument that starts with "..", and a directory of
\* the name it asks for exists outside the root.
C14_Witness ==
    /\ call.fn = "Sub"
    /\ call.arg.dir[1] = ".."
    /\ call.res.err = "nil"
    /\ call.res.root # call.arg.root
    /\ filepathClean(filepathJoin(<<call.arg.root, call.arg.dir>>)) \in FsDirs

\* A request path below /assets/ written without empty, "." or ".." parts.
BelowAssets(p) ==
    /\ Len(p) >= 3
    /\ p[1] = "" /\ p[2] = "assets"
    /\ \A i \in 3..Len(p) : p[i] \notin {".", ".."}
    /\ \A i \in 3..(Len(p) - 1) : p[i] # ""

\* C15: the router of the ephemeral server renders the template only for
\* GET on the root path and reads an asset only for GET below /assets/;
\* every other method or path does neither.
C15_OnlyGetRoutes ==
    call.fn = "serve" =>
        /\ call.res.rendered <=>
              (call.arg.method = "GET" /\ call.arg.path = Slash)
        /\ call.res.assetRead <=>
              (call.arg.method = "GET" /\ BelowAssets(call.arg.path))

\* C15 (amended): the same with HEAD served by the two GET routes.
C15_GetAndHeadRoutes ==
    call.fn = "serve" =>
        /\ call.res.rendered <=>
              (call.arg.method \in {"GET", "HEAD"} /\ call.arg.path = Slash)
        /\ call.res.assetRead <=>
              (call.arg.method \in {"GET", "HEAD"} /\ BelowAssets(call.arg.path))

\* A HEAD request for the root path has run the root handler.
C15_Witness ==
    /\ call.fn = "serve"
    /\ call.arg.method = "HEAD"
    /\ call.arg.path = Slash
    /\ call.res.rendered

\* The functions every render is to offer besides the general utilities.
RegistryNames == {"chunk", "asset", "locale", "tr", "trLocale", "env", "qrCode"}

\* C16: the registry Template.Render builds holds the general utilities and
\* chunk, asset, locale, tr, trLocale, the whitelisted env and qrCode: a
\* template that calls any of them parses.
C16_RegistryComplete ==
    fnPc = "rendered" =>
        /\ DOMAIN SprigFuncMap \subseteq DOMAIN renderFuncs
        /\ RegistryNames \subseteq DOMAIN renderFuncs
        /\ renderFuncs["env"] = "envFunc"
        /\ \A f \in RegistryNames : Parse(renderFuncs, <<[fn |-> f, arg |-> ""]>>)

\* C17: for n >= 1 chunk(arr, n) returns sub-arrays that, laid end to end in
\* order, are arr; every one but the last has n elements and the last has
\* between 1 and n; an empty arr gives no sub-array. Until it returns, the
\* chunks built are the part of arr before index i.
C17_ChunkPartition ==
    (chNargs = 2 /\ chN >= 1) =>
        /\ chPc # "panicked"
        /\ chPc = "loop" =>
              joinSlash(chChunks) =
                  SubSeq(chArr, 1, IF chI < Len(chArr) THEN chI ELSE Len(chArr))
        /\ chPc = "done" =>
              /\ chRet.kind = "chunks"
              /\ joinSlash(chRet.val) = chArr
              /\ \A k \in 1..(Len(chRet.val) - 1) : Len(chRet.val[k]) = chN
              /\ chRet.val # <<>> =>
                    /\ Len(chRet.val[Len(chRet.val)]) >= 1
                    /\ Len(chRet.val[Len(chRet.val)]) <= chN
              /\ chArr = <<>> => chRet.val = <<>>

\* chunk of three elements by two returned a full chunk and a shorter one.
C17_Witness ==
    /\ chPc = "done"
    /\ chNargs = 2
    /\ chN = 2
    /\ Len(chArr) = 3
    /\ Len(chRet.val) = 2
    /\ Len(chRet.val[2]) = 1

\* C18: called with fewer than two arguments, or with n <= 0, chunk neither
\* panics nor keeps looping: it builds no chunk and returns nil or an empty
\* sequence.
C18_SoftFailure ==
    (chNargs < 2 \/ chN <= 0) =>
        /\ chPc # "panicked"
        /\ chChunks = <<>>
        /\ chPc = "done" => (chRet.kind = "nil" \/ chRet.val = <<>>)

\* The parts between slashes that are names.
Names(p) == SelectSeq(p, LAMBDA c : c # "")

\* The string of a path with these names, rooted or not, written with single
\* slashes.
Canon(rooted, names) ==
    IF rooted THEN <<"">> \o (IF names = <<>> THEN <<"">> ELSE names)
    ELSE IF names = <<>> THEN EmptyStr ELSE names

\* C19: asset(s1..sk) is the prefix and the segments joined with single
\* forward slashes, the names in order and nothing else: rooted as its first
\* non-empty element is. With an empty prefix it is the join of the segments
\* alone, and without segments it is the prefix.
C19_AssetJoin ==
    call.fn = "asset" =>
        LET elems == <<call.arg.prefix>> \o call.arg.segs
            rest == SelectSeq(elems, LAMBDA e : e # EmptyStr)
        IN  /\ call.res = Canon(rest # <<>> /\ Rooted(rest[1]), Names(joinSlash(elems)))
            /\ call.arg.prefix = EmptyStr =>
                  call.res = Canon(Rooted(joinSlash(rest)), Names(joinSlash(call.arg.segs)))
            /\ call.arg.segs = <<>> => call.res = call.arg.prefix

\* asset "a/" "/b" with the empty prefix gave "a/b".
C19_Witness ==
    /\ call.fn = "asset"
    /\ call.arg.prefix = EmptyStr
    /\ call.arg.segs = << <<"a", "">>, <<"", "b">> >>
    /\ call.res = <<"a", "b">>

\* C20: locale() returns the requested locale when the template supports it,
\* the template's default when it does not, and the fixed default "en" when
\* the template has no locale configuration.
C20_LocaleFixedDefault ==
    call.fn = "locale" =>
        LET b == call.arg.bundle
        IN  call.res = IF b.nil THEN "en"
                       ELSE IF call.arg.locale \in b.locales THEN call.arg.locale
                       ELSE b.default

\* C20 (amended): without locale configuration locale() returns the requested
\* locale as it was passed.
C20_LocaleResolved ==
    call.fn = "locale" =>
        LET b == call.arg.bundle
        IN  call.res = IF b.nil THEN call.arg.locale
                       ELSE IF call.arg.locale \in b.locales THEN call.arg.locale
                       ELSE b.default

\* Without locale configuration a request for "de" got "de"
C20_Witness ==
    /\ call.fn = "locale"
    /\ call.arg.bundle.nil
    /\ call.arg.locale = "de"
    /\ call.res = "de"

\* C21: on a registry whose template has no translation bundle, tr returns
\* "!(localizer is nil)" and trLocale returns "!(bundle is nil)" for every
\* key, locale and argument list; the call does not panic and the result is
\* not the key.
C21_NilBundleMarked ==
    (trLast.fn # "none" /\ trBundle[trLast.reg].nil) =>
        /\ ~trLast.res.panic
        /\ trLast.res.text = IF trLast.fn = "tr" THEN "!(localizer is nil)"
                             ELSE "!(bundle is nil)"
        /\ trLast.res.text # trLast.key

\* tr was called without a bundle and with an odd number of arguments, as
\* the second call made.
C21_Witness ==
    /\ trLast.fn = "tr"
    /\ trBundle[trLast.reg].nil
    /\ Len(trLast.args) = 1
    /\ trCalls = 2
    /\ trLast.res.text = "!(localizer is nil)"

\* The required files all pass Stat.
AllStat(files) ==
    \A i \in 1..Len(RequiredFiles) :
        StateOf(files, RequiredFiles[i]) \notin {"absent", "noperm"}

\* Something Load reads is malformed or cannot be read.
LoadFailure(files) ==
    \/ files.config \in {"bad", "unreadable"}
    \/ files.schema \in {"bad", "unreadable"}
    \/ files.content = "unreadable"
    \/ files.locales = "bad"
    \/ files.example \in {"bad", "noperm"}

\* C22: Load returns an error matching ErrTemplateNotFound that names the
\* file when a required file is absent (and Stat fails on none in another
\* way); when the required files are there and anything Load reads is
\* malformed or unreadable it returns a nil template and another error; a nil
\* error comes with a template only.
C22_LoadErrors ==
    call.fn = "Load" =>
        LET files == call.arg
            res == call.res
            missing == {i \in 1..Len(RequiredFiles) :
                           StateOf(files, RequiredFiles[i]) = "absent"}
        IN  /\ (missing # {} /\ \A i \in 1..Len(RequiredFiles) :
                                    StateOf(files, RequiredFiles[i]) # "noperm")
                  => /\ res.err.kind = "ErrTemplateNotFound"
                     /\ res.tmpl = "nil"
                     /\ \E i \in missing : res.err.what = RequiredFiles[i]
            /\ (AllStat(files) /\ LoadFailure(files))
                  => /\ res.tmpl = "nil"
                     /\ res.err.kind = "other"
            /\ res.err.kind = "nil" => res.tmpl # "nil"

\* C23: when the server answers with a status other than 200, Client.Render
\* returns no body and an error that is ErrNotOK and carries the status and
\* the response body as far as it could be read (all of it when the read did
\* not fail), and the response body is closed; it returns an open body with
\* a nil error for status 200 and only then.
C23_NotOK ==
    call.fn = "ClientRender" =>
        LET resp == call.arg
            res == call.res
        IN  /\ (~resp.transportErr /\ resp.status # 200) =>
                  /\ res.body = "nil"
                  /\ res.err.kind = "ErrNotOK"
                  /\ res.err.status = resp.status
                  /\ res.err.text = SubSeq(resp.body, 1, resp.got)
                  /\ resp.got = Len(resp.body) => res.err.text = resp.body
                  /\ res.closed
            /\ (res.body = "open") <=> (~resp.transportErr /\ resp.status = 200)
            /\ (res.body = "open") <=> (res.err.kind = "nil")
            /\ res.body = "open" => ~res.closed

\* A 204 with a body of two chunks, read whole, came back as ErrNotOK.
C23_Witness ==
    /\ call.fn = "ClientRender"
    /\ call.arg.status = 204
    /\ Len(call.arg.body) = 2
    /\ call.res.err.kind = "ErrNotOK"
    /\ call.res.err.text = call.arg.body
    /\ call.res.closed

\* C24: a Generate call that failed the schema validation has bound no
\* listener, started no goroutine, not invoked pdfRenderer.Render, received
\* no request and written nothing, and it went from the validation straight
\* to its return; pdfRenderer.Render has been invoked only with values the
\* schema accepts and after the temporary server was started.
C24_FailsBeforeServing ==
    /\ [](genErr.kind = "ErrInvalidValues" =>
              /\ genPc = "returned"
              /\ listener = "none"
              /\ servePc = "none"
              /\ shutdownPc = "none"
              /\ renderPc = "idle"
              /\ httpReq = "none"
              /\ outWritten = 0)
    /\ [](renderPc # "idle" =>
              /\ SchemaValid(schema, values)
              /\ ServerStarted
              /\ servePc # "none")
    /\ [][(genErr.kind # "ErrInvalidValues" /\ genErr'.kind = "ErrInvalidValues") =>
              (genPc = "start" /\ genPc' = "returned")]_vars

\* Generate returned ErrInvalidValues for one violation with nothing started,
\* even though the caller's context was cancelled meanwhile.
C24_Witness ==
    /\ genPc = "returned"
    /\ genErr.kind = "ErrInvalidValues"
    /\ Cardinality(genErr.detail) = 1
    /\ ctxCancelled
    /\ renderPc = "idle"
    /\ servePc = "none"

C26_RenderOnce ==
    /\ [][/\ ((renderPc' # renderPc /\ renderPc' = "launch") =>
                (renderPc = "idle" /\ genPc = "call"))
           /\ (renderPc # "idle" => renderPc' # "idle")
           /\ (RenderReturned => (renderPc' = renderPc /\ renderErr' = renderErr))]_vars
    /\ []((genPc = "returned" /\ renderPc = "failed") =>
              genErr = [kind |-> "render PDF", detail |-> {renderErr}])

\* Generate returned the browser's launch failure under a live context.
C26_Witness ==
    /\ genPc = "returned"
    /\ renderPc = "failed"
    /\ renderErr = "failed to launch browser"
    /\ genErr = [kind |-> "render PDF", detail |-> {"failed to launch browser"}]
    /\ ~ctxCancelled

\* C27: within one registry trLocale makes a localizer at most once per
\* locale string, keeps it in its map, and answers every call for that
\* string with the one kept; no localizer is in the maps of two registries.
C27_OneLocalizerPerLocale ==
    /\ \A r \in Regs, l \in Requested :
          /\ trCreated[r][l] <= 1
          /\ (localizers[r][l] # NoLocalizer) <=> (trCreated[r][l] = 1)
    /\ \A r1, r2 \in Regs, l1, l2 \in Requested :
          (r1 # r2 /\ localizers[r1][l1] # NoLocalizer)
              => localizers[r1][l1].id # localizers[r2][l2].id
    /\ (trLast.fn = "trLocale" /\ ~trBundle[trLast.reg].nil) =>
          trLast.localizer = localizers[trLast.reg][trLast.locale]

\* Both registries hold a localizer for "de" and the last call, a second
\* trLocale "de" on the first registry, used the one made earlier.
C27_Witness ==
    /\ trLast.fn = "trLocale"
    /\ trLast.locale = "de"
    /\ localizers[1]["de"] # NoLocalizer
    /\ localizers[2]["de"] # NoLocalizer
    /\ trLast.localizer = localizers[1]["de"]
    /\ trLast.localizer.id < localizers[2]["de"].id

\* C28: every renderer.Render of the template cachingFSLoader.Load returned
\* has read the complete source that was on disk when the template was
\* cached.
C28_ReadsWholeSource ==
    \A c \in Callers :
        (clCache.cached /\ clLast[c].done) => clLast[c].content = clCache.src

\* C29: at no time are two handlers at accesses of the server's template
\* cache map with at least one of them writing, and the runtime never ends
\* the process over such accesses.
C29_NoConcurrentMapAccess ==
    /\ ~MapAccessRace
    /\ \A h \in Handlers : hPc[h] # "fatal"

\* C30: a handler whose load failed holds no template and has stored
\* nothing, and the failing step leaves the cache as it was; the cache holds
\* only templates that were loaded; and a load made when the template
\* directory exists succeeds with the version on disk, whatever failed
\* before.
C30_FailedLoadNotCached ==
    /\ [](\A h \in Handlers :
              hPc[h] = "failed" =>
                  /\ hTmpl[h] = NoTemplate
                  /\ hLoads[h] = 1
                  /\ hCacheOps[h] = IF hReq[h].kind = "preview" THEN 0 ELSE 1)
    /\ [](\A n \in TNames :
              /\ cache[n] # NoTemplate => cache[n].ver >= 1
              /\ stored[n] = 0 => cache[n] = NoTemplate)
    /\ [][\A h \in Handlers :
              /\ (hPc[h] # "failed" /\ hPc'[h] = "failed") =>
                     (cache' = cache /\ stored' = stored)
              /\ (hPc[h] = "load" /\ hLoads'[h] # hLoads[h] /\ disk[hReq[h].name] >= 1) =>
                     (hPc'[h] # "failed" /\ hTmpl'[h].ver = disk[hReq[h].name])]_vars

\* A render request failed for a template that did not exist; after the
\* directory was created a later render request for the same name went
\* through the lookup, loaded it and stored it.
C30_Witness ==
    \E h1, h2 \in Handlers :
        /\ hPc[h1] = "failed"
        /\ hReq[h1].kind = "render"
        /\ hPc[h2] = "done"
        /\ hReq[h2] = hReq[h1]
        /\ hLoads[h2] = 1
        /\ hCacheOps[h2] = 2
        /\ hTmpl[h2].ver >= 1
        /\ cache[hReq[h2].name] = hTmpl[h2]

====
